---- MODULE Spec2Model ----
(***************************************************************************)
(* Scrubber Pro (src/Scrubber_pro.py): normalisation of payer names and    *)
(* identifiers, construction of the master lookup tables, and the tiered   *)
(* matching loop that enriches every row of an uploaded target file.       *)
(*                                                                         *)
(* A Python string is a sequence of one-character strings.  A data-frame   *)
(* row is a function from column names to strings.  A data frame is a      *)
(* record [cols |-> sequence of column names, rows |-> sequence of rows].  *)
(***************************************************************************)
EXTENDS Integers, Sequences, FiniteSets, TLC

(***************************************************************************)
(* Characters and Python string primitives                                 *)
(***************************************************************************)
Digits == {"0", "1", "2", "3", "4", "5", "6", "7", "8", "9"}

LowerLetters == {"a", "b", "c", "d", "e", "f", "g", "h", "i", "j", "k", "l", "m",
                 "n", "o", "p", "q", "r", "s", "t", "u", "v", "w", "x", "y", "z"}

UpperLetters == {"A", "B", "C", "D", "E", "F", "G", "H", "I", "J", "K", "L", "M",
                 "N", "O", "P", "Q", "R", "S", "T", "U", "V", "W", "X", "Y", "Z"}

Whitespace == {" "}

LowerSeq == <<"a", "b", "c", "d", "e", "f", "g", "h", "i", "j", "k", "l", "m",
              "n", "o", "p", "q", "r", "s", "t", "u", "v", "w", "x", "y", "z">>

UpperSeq == <<"A", "B", "C", "D", "E", "F", "G", "H", "I", "J", "K", "L", "M",
              "N", "O", "P", "Q", "R", "S", "T", "U", "V", "W", "X", "Y", "Z">>

\* str.lower() on one character
LowerChar(c) ==
    IF c \in UpperLetters
    THEN LowerSeq[CHOOSE i \in 1..Len(UpperSeq) : UpperSeq[i] = c]
    ELSE c

\* str.upper() on one character
UpperChar(c) ==
    IF c \in LowerLetters
    THEN UpperSeq[CHOOSE i \in 1..Len(LowerSeq) : LowerSeq[i] = c]
    ELSE c

\* str.lower()
Lower(s) == [i \in 1..Len(s) |-> LowerChar(s[i])]

\* str.upper()
Upper(s) == [i \in 1..Len(s) |-> UpperChar(s[i])]

\* str.strip(): drops leading and trailing whitespace
Strip(s) ==
    LET keep == {i \in 1..Len(s) : s[i] \notin Whitespace}
    IN  IF keep = {} THEN <<>>
        ELSE LET lo == CHOOSE i \in keep : \A j \in keep : i <= j
                 hi == CHOOSE i \in keep : \A j \in keep : j <= i
             IN  SubSeq(s, lo, hi)

\* s.split(sep)[0]: the text before the first occurrence of sep (all of s if none)
SplitFirst(s, sep) ==
    LET at == {i \in 1..Len(s) : s[i] = sep}
    IN  IF at = {} THEN s
        ELSE SubSeq(s, 1, (CHOOSE i \in at : \A j \in at : i <= j) - 1)

\* str.isdigit(): non-empty and every character a digit
IsDigit(s) == Len(s) > 0 /\ \A i \in 1..Len(s) : s[i] \in Digits

\* str.zfill(width) for a string without a sign
ZFill(s, width) ==
    IF Len(s) >= width THEN s
    ELSE [i \in 1..(width - Len(s)) |-> "0"] \o s

\* Python's `sub in s` for strings
Contains(sub, s) ==
    \E k \in 0..(Len(s) - Len(sub)) : SubSeq(s, k + 1, k + Len(sub)) = sub

\* s.split(','): the pieces between commas, in order
RECURSIVE SplitComma(_)
SplitComma(s) ==
    LET at == {i \in 1..Len(s) : s[i] = ","}
    IN  IF at = {} THEN <<s>>
        ELSE LET c == CHOOSE i \in at : \A j \in at : i <= j
             IN  <<SubSeq(s, 1, c - 1)>> \o SplitComma(SubSeq(s, c + 1, Len(s)))

(***************************************************************************)
(* Core logic                                                              *)
(***************************************************************************)
PadWidth == 5

MinPartialLen == 4

IsAlnum(c) == c \in Digits \/ c \in LowerLetters \/ c \in UpperLetters

\* normalize(val): re.sub(r'[^a-zA-Z0-9]', '', str(val)).lower()
normalize(val) == Lower(SelectSeq(val, IsAlnum))

\* standardize_id(val): str(val).split('.')[0].strip().split('-')[0], padded when numeric
standardize_id(val) ==
    IF Strip(val) = <<>> THEN <<>>
    ELSE LET val_str == SplitFirst(Strip(SplitFirst(val, ".")), "-")
         IN  IF IsDigit(val_str) /\ Len(val_str) < PadWidth
             THEN ZFill(val_str, PadWidth)
             ELSE val_str

(***************************************************************************)
(* Data frames                                                             *)
(***************************************************************************)
\* the header text of the columns the frames of the model use
ColumnText ==
    [c \in {"Payer ID", "Payer Name", "Clean_payer Name", "Known Names",
            "Payer Std?", "Search Method"} |->
        CASE c = "Payer ID" -> <<"P", "a", "y", "e", "r", " ", "I", "D">>
          [] c = "Payer Name" -> <<"P", "a", "y", "e", "r", " ", "N", "a", "m", "e">>
          [] c = "Clean_payer Name" ->
                <<"C", "l", "e", "a", "n", "_", "p", "a", "y", "e", "r", " ", "N", "a", "m", "e">>
          [] c = "Known Names" -> <<"K", "n", "o", "w", "n", " ", "N", "a", "m", "e", "s">>
          [] c = "Payer Std?" -> <<"P", "a", "y", "e", "r", " ", "S", "t", "d", "?">>
          [] c = "Search Method" ->
                <<"S", "e", "a", "r", "c", "h", " ", "M", "e", "t", "h", "o", "d">>]

\* the elements of a sequence
Range(s) == {s[i] : i \in 1..Len(s)}

\* row.get(col, ''): the cell, or the empty string when the row has no such column
Get(row, col) == IF col \in DOMAIN row THEN row[col] ELSE <<>>

\* row[col] = v on a pandas Series: replaces the cell, or adds the label
SetCell(row, col, v) == [c \in DOMAIN row \cup {col} |-> IF c = col THEN v ELSE row[c]]

\* a frame that has not been read yet
NoFrame == [cols |-> <<>>, rows |-> <<>>]

\* an empty dict
EmptyMap == [k \in {} |-> <<>>]

\* dict.setdefault(k, v): an insert-if-absent, the first value of a key stays
DictSetDefault(d, k, v) == [x \in DOMAIN d \cup {k} |-> IF x \in DOMAIN d THEN d[x] ELSE v]

\* d[k] = v on a dict: assignment replaces the value of a key already present
DictSet(d, k, v) == [x \in DOMAIN d \cup {k} |-> IF x = k THEN v ELSE d[x]]

(***************************************************************************)
(* load_lookup_data: one iteration of the loop over the master rows        *)
(***************************************************************************)
\* raw_name: 'Clean_payer Name' when that cell is non-empty, else 'Payer Name'
RawName(row) ==
    IF Get(row, "Clean_payer Name") # <<>>
    THEN row["Clean_payer Name"]
    ELSE Get(row, "Payer Name")

\* a loop body that stores the row with its Payer ID cell standardized
LoadStepStdData(idx, row) ==
    LET pid   == standardize_id(Get(row, "Payer ID"))
        pname == normalize(RawName(row))
        data  == IF "Payer ID" \in DOMAIN row THEN SetCell(row, "Payer ID", pid) ELSE row
    IN  [id_map   |-> IF pid # <<>> THEN DictSet(idx.id_map, pid, data) ELSE idx.id_map,
         name_map |-> IF pname # <<>> THEN DictSet(idx.name_map, pname, data)
                      ELSE idx.name_map,
         master_names_list |->
                      IF pname # <<>> THEN Append(idx.master_names_list, <<pname, data>>)
                      ELSE idx.master_names_list]

\* the three lookup structures after the loop body has run on `row`
LoadStep(idx, row) ==
    LET pid   == standardize_id(Get(row, "Payer ID"))
        pname == normalize(RawName(row))
        data  == row
    IN  [id_map   |-> IF pid # <<>> THEN DictSet(idx.id_map, pid, data) ELSE idx.id_map,
         name_map |-> IF pname # <<>> THEN DictSet(idx.name_map, pname, data)
                      ELSE idx.name_map,
         master_names_list |->
                      IF pname # <<>> THEN Append(idx.master_names_list, <<pname, data>>)
                      ELSE idx.master_names_list]

(***************************************************************************)
(* The scrub loop body: aliases, the three tiers, result assignment        *)
(***************************************************************************)
S_Yes == <<"Y", "e", "s">>

S_No == <<"N", "o">>

S_Unresolved == <<"U", "n", "r", "e", "s", "o", "l", "v", "e", "d">>

S_IDMatch == <<"I", "D", " ", "M", "a", "t", "c", "h">>

\* f"Exact Name: {name}"
ExactLabel(name) == <<"E", "x", "a", "c", "t", " ", "N", "a", "m", "e", ":", " ">> \o name

\* f"Partial: '{name}' in Master"
PartialInLabel(name) == <<"P", "a", "r", "t", "i", "a", "l", ":", " ", "'">> \o name \o <<"'", " ", "i", "n", " ", "M", "a", "s", "t", "e", "r">>

\* f"Partial: Master in '{name}'"
MasterInLabel(name) == <<"P", "a", "r", "t", "i", "a", "l", ":", " ", "M", "a", "s", "t", "e", "r", " ", "i", "n", " ", "'">> \o name \o <<"'">>

\* name_cols: the columns whose upper-cased header contains NAME, in column order
NameCols(cols) ==
    LET IsNameCol(c) == Contains(<<"N", "A", "M", "E">>, Upper(ColumnText[c]))
    IN  SelectSeq(cols, IsNameCol)

\* the parts collected from the name columns, before de-duplication
RECURSIVE Parts(_, _)
Parts(row, ncols) ==
    IF ncols = <<>> THEN <<>>
    ELSE LET raw_val == Get(row, Head(ncols))
             pieces  == SplitComma(raw_val)
         IN  [i \in 1..Len(pieces) |-> normalize(pieces[i])] \o Parts(row, Tail(ncols))

\* set(filter(None, potential_names))
AliasSet(row, ncols) == Range(Parts(row, ncols)) \ {<<>>}

\* list(set(...)): the set in whatever order the hash table yields it
Orders(S) ==
    {o \in [1..Cardinality(S) -> S] : \A i, j \in 1..Cardinality(S) : o[i] = o[j] => i = j}

\* match_data is None, or <<record>>
None == <<>>

\* Python truth of match_data: None and the empty dict are false
Truthy(md) == md # None /\ DOMAIN md[1] # {}

\* the smallest element of a non-empty set of integers
Min(S) == CHOOSE i \in S : \A j \in S : i <= j

\* Tier 1: exact id match
Tier1(t_id, m_id) ==
    IF t_id \in DOMAIN m_id
    THEN [match_data |-> <<m_id[t_id]>>, method |-> S_IDMatch]
    ELSE [match_data |-> None, method |-> S_Unresolved]

\* Tier 2: the first alias, in list order, that is a key of the name map
Tier2(acc, names, m_name) ==
    LET hits == {i \in 1..Len(names) : names[i] \in DOMAIN m_name}
    IN  IF Truthy(acc.match_data) \/ hits = {} THEN acc
        ELSE [match_data |-> <<m_name[names[Min(hits)]]>>,
              method |-> ExactLabel(names[Min(hits)])]

\* the indices of the name list an alias is in a containment relation with
HitsOf(name, m_name_list) ==
    {j \in 1..Len(m_name_list) :
        Contains(name, m_name_list[j][1]) \/ Contains(m_name_list[j][1], name)}

\* an inner loop without its break: the last entry of the list that hits
ScanListLast(name, m_name_list) ==
    CHOOSE j \in HitsOf(name, m_name_list) : \A k \in HitsOf(name, m_name_list) : k <= j

\* the inner for loop: stops at the first entry of the list that hits
ScanList(name, m_name_list) == Min(HitsOf(name, m_name_list))

\* an outer loop that does not skip the short aliases
RECURSIVE Tier3LoopNoFloor(_, _, _, _)
Tier3LoopNoFloor(acc, names, i, m_name_list) ==
    IF i > Len(names) THEN acc
    ELSE IF HitsOf(names[i], m_name_list) = {} THEN Tier3LoopNoFloor(acc, names, i + 1, m_name_list)
    ELSE LET j   == Min(HitsOf(names[i], m_name_list))
             new == [match_data |-> <<m_name_list[j][2]>>,
                     method |-> IF Contains(names[i], m_name_list[j][1])
                                THEN PartialInLabel(names[i])
                                ELSE MasterInLabel(names[i])]
         IN  IF Truthy(new.match_data) THEN new
             ELSE Tier3LoopNoFloor(new, names, i + 1, m_name_list)

\* Tier 3: the outer loop over the aliases from position i on
RECURSIVE Tier3Loop(_, _, _, _)
Tier3Loop(acc, names, i, m_name_list) ==
    IF i > Len(names) THEN acc
    ELSE IF Len(names[i]) < MinPartialLen THEN Tier3Loop(acc, names, i + 1, m_name_list)
    ELSE IF HitsOf(names[i], m_name_list) = {} THEN Tier3Loop(acc, names, i + 1, m_name_list)
    ELSE LET j   == ScanList(names[i], m_name_list)
             new == [match_data |-> <<m_name_list[j][2]>>,
                     method |-> IF Contains(names[i], m_name_list[j][1])
                                THEN PartialInLabel(names[i])
                                ELSE MasterInLabel(names[i])]
         IN  IF Truthy(new.match_data) THEN new
             ELSE Tier3Loop(new, names, i + 1, m_name_list)

Tier3(acc, names, m_name_list) ==
    IF ~Truthy(acc.match_data) /\ names # <<>>
    THEN Tier3Loop(acc, names, 1, m_name_list)
    ELSE acc

\* tiers in the wrong order: the exact-name tier before the id tier
ResolveNameFirst(t_id, names, m_id, m_name, m_name_list) ==
    LET byName == Tier2([match_data |-> None, method |-> S_Unresolved], names, m_name)
    IN  IF Truthy(byName.match_data) THEN byName
        ELSE Tier3(Tier1(t_id, m_id), names, m_name_list)

\* the matching logic: the tiers in order
Resolve(t_id, names, m_id, m_name, m_name_list) ==
    Tier3(Tier2(Tier1(t_id, m_id), names, m_name), names, m_name_list)

\* a merge that copies every master column, also over a column the target has
RECURSIVE CopyAll(_, _, _, _)
CopyAll(row, mcols, tcols, data) ==
    IF mcols = <<>> THEN row
    ELSE CopyAll(SetCell(row, Head(mcols), data[Head(mcols)]), Tail(mcols), tcols, data)

\* for col in m_df.columns: if col not in t_df.columns: row[col] = match_data[col]
RECURSIVE CopyMissing(_, _, _, _)
CopyMissing(row, mcols, tcols, data) ==
    IF mcols = <<>> THEN row
    ELSE CopyMissing(IF Head(mcols) \notin Range(tcols)
                     THEN SetCell(row, Head(mcols), data[Head(mcols)])
                     ELSE row,
                     Tail(mcols), tcols, data)

\* the two provenance columns
Stamp(row, std, method) == SetCell(SetCell(row, "Payer Std?", std), "Search Method", method)

\* a result assignment that does not tell the unresolved rows apart
AssignAlwaysYes(row, res, mcols, tcols) ==
    IF Truthy(res.match_data)
    THEN Stamp(CopyMissing(row, mcols, tcols, res.match_data[1]), S_Yes, res.method)
    ELSE Stamp(row, S_Yes, res.method)

\* result assignment
Assign(row, res, mcols, tcols) ==
    IF Truthy(res.match_data)
    THEN Stamp(CopyMissing(row, mcols, tcols, res.match_data[1]), S_Yes, res.method)
    ELSE Stamp(row, S_No, res.method)

\* an output list that grows at the front
PrependResult(rs, row) == <<row>> \o rs

\* results.append(row)
AppendResult(rs, row) == Append(rs, row)

(***************************************************************************)
(* Inputs of the model: the master registry file and the uploaded file     *)
(***************************************************************************)
MaxMaster == 2

MaxTarget == 1

MaxTargetRows == 2

MaxIdLen == 6

SeqsUpTo(S, n) == UNION {[1..k -> S] : k \in 0..n}

\* the rows over the columns `cols` whose cells come from cells[c]
RowsOver(cols, cells) == {r \in [Range(cols) -> UNION {cells[c] : c \in Range(cols)}] :
                            \A c \in Range(cols) : r[c] \in cells[c]}

FramesOver(cols, cells, n) ==
    {[cols |-> cols, rows |-> rs] : rs \in SeqsUpTo(RowsOver(cols, cells), n)}

MasterColsA == <<"Payer ID", "Payer Name">>

MasterCellsA ==
    [c \in Range(MasterColsA) |->
        IF c = "Payer ID"
        THEN {<<>>, <<"7">>}
        ELSE {<<>>,
              <<"A", "B", "-", "c", "d">>,
              <<"a", "b", "c", "d", "e">>,
              <<"A", " ", "b">>}]

MasterColsB == <<"Payer ID", "Payer Name", "Clean_payer Name", "Search Method">>

MasterCellsB ==
    [c \in Range(MasterColsB) |->
        CASE c = "Payer ID" -> {<<"8", ".", "0">>}
          [] c = "Payer Name" -> {<<"a", "b", "c", "d", "e">>, <<"A", " ", "b">>}
          [] c = "Clean_payer Name" -> {<<>>, <<"A", " ", "b">>}
          [] c = "Search Method" -> {<<"m">>}]

MasterFiles == FramesOver(MasterColsA, MasterCellsA, MaxMaster)
                 \cup FramesOver(MasterColsB, MasterCellsB, MaxMaster)

TargetColsA == <<"Payer ID", "Payer Name">>

TargetCellsA ==
    [c \in Range(TargetColsA) |->
        IF c = "Payer ID"
        THEN {<<"7">>, <<"8", "-", "A">>}
        ELSE {<<>>,
              <<"A", "b", "-", "c", "d", ",", "a", "b", "c", "d">>,
              <<"a", "b", "c">>,
              <<"a", "b", "c", "d", ",", "a", "b", "c", "d", "e">>,
              <<"b", "c", "d", "e", ",", "a", "b", "c", "x">>}]

TargetColsB == <<"Payer Name", "Known Names", "Payer Std?", "Search Method">>

TargetCellsB ==
    [c \in Range(TargetColsB) |->
        CASE c = "Payer Name" -> {<<"A", "B", "C", "D">>}
          [] c = "Known Names" -> {<<"a", "b", "c">>, <<"a", "b", "c", "d", "e">>}
          [] c = "Payer Std?" -> {<<"Y", "e", "s">>}
          [] c = "Search Method" -> {<<"o", "l", "d">>}]

TargetFiles == FramesOver(TargetColsA, TargetCellsA, MaxTarget)
                 \cup FramesOver(TargetColsB, TargetCellsB, MaxTarget)

\* the inputs of the specification of the row loop: a small registry, longer files
MasterCellsR ==
    [c \in Range(MasterColsA) |->
        IF c = "Payer ID" THEN {<<"7">>} ELSE {<<"a", "b", "c", "d">>}]

TargetCellsR ==
    [c \in Range(TargetColsA) |->
        IF c = "Payer ID" THEN {<<"7">>, <<"9">>} ELSE {<<"a", "b", "c", "d">>, <<"x">>}]

MasterFilesR == FramesOver(MasterColsA, MasterCellsR, MaxMaster)

TargetFilesR == FramesOver(TargetColsA, TargetCellsR, MaxTargetRows)

\* the inputs of the specification of standardize_id
IdChars == {"1", "A", " ", ".", "-"}

IdInputs == SeqsUpTo(IdChars, MaxIdLen)

(***************************************************************************)
(* State                                                                   *)
(***************************************************************************)
VARIABLES
    file_source,        \* the master registry file in the repository
    t_file,             \* the file the user uploads
    pc,                 \* where the script is
    li,                 \* load_lookup_data: index of the next master row
    id_map,             \* load_lookup_data: standardized id -> row data
    name_map,           \* load_lookup_data: normalized name -> row data
    master_names_list,  \* load_lookup_data: (normalized name, row data) pairs
    m_df, m_id, m_name, m_name_list,    \* what load_lookup_data returned
    t_df,               \* the uploaded file as read
    name_cols,          \* the name columns of t_df
    ri,                 \* scrub loop: index of the next target row
    potential_names,    \* scrub loop: the alias list of the last row
    match_data,         \* scrub loop: the match of the last row
    method,             \* scrub loop: the method label of the last row
    results,            \* the output rows so far
    final_df,           \* the table shown and offered for download
    val,                \* standardize_id: the argument
    ret                 \* standardize_id: the returned value

vars == <<file_source, t_file, pc, li, id_map, name_map, master_names_list,
          m_df, m_id, m_name, m_name_list, t_df, name_cols, ri, potential_names,
          match_data, method, results, final_df, val, ret>>

loadVars == <<li, id_map, name_map, master_names_list>>

indexVars == <<m_df, m_id, m_name, m_name_list>>

scrubVars == <<name_cols, ri, potential_names, match_data, method, results, final_df>>

idVars == <<val, ret>>

InitWith(masters, targets) ==
    /\ file_source \in masters
    /\ t_file \in targets
    /\ pc = "load"
    /\ li = 1
    /\ id_map = EmptyMap
    /\ name_map = EmptyMap
    /\ master_names_list = <<>>
    /\ m_df = NoFrame
    /\ m_id = EmptyMap
    /\ m_name = EmptyMap
    /\ m_name_list = <<>>
    /\ t_df = NoFrame
    /\ name_cols = <<>>
    /\ ri = 1
    /\ potential_names = <<>>
    /\ match_data = None
    /\ method = S_Unresolved
    /\ results = <<>>
    /\ final_df = <<>>
    /\ val = <<>>
    /\ ret = <<>>

Init == InitWith(MasterFiles, TargetFiles)

InitRows == InitWith(MasterFilesR, TargetFilesR)

(***************************************************************************)
(* Actions                                                                 *)
(***************************************************************************)
\* load_lookup_data: the loop body on the next master row
LoadRow ==
    /\ pc = "load"
    /\ li <= Len(file_source.rows)
    /\ LET idx == LoadStep([id_map |-> id_map, name_map |-> name_map,
                            master_names_list |-> master_names_list],
                           file_source.rows[li])
       IN  /\ id_map' = idx.id_map
           /\ name_map' = idx.name_map
           /\ master_names_list' = idx.master_names_list
    /\ li' = li + 1
    /\ UNCHANGED <<file_source, t_file, pc, indexVars, t_df, scrubVars, idVars>>

\* load_lookup_data returns df, id_map, name_map, master_names_list
LoadReturn ==
    /\ pc = "load"
    /\ li > Len(file_source.rows)
    /\ m_df' = file_source
    /\ m_id' = id_map
    /\ m_name' = name_map
    /\ m_name_list' = master_names_list
    /\ pc' = "idle"
    /\ UNCHANGED <<file_source, t_file, loadVars, t_df, scrubVars, idVars>>

\* the user uploads a file and it is read into t_df
Upload ==
    /\ pc = "idle"
    /\ t_df' = t_file
    /\ pc' = "uploaded"
    /\ UNCHANGED <<file_source, t_file, loadVars, indexVars, scrubVars, idVars>>

\* the Scrub button: results = [], name_cols detected
ScrubStart ==
    /\ pc = "uploaded"
    /\ results' = <<>>
    /\ name_cols' = NameCols(t_df.cols)
    /\ ri' = 1
    /\ pc' = "scrub"
    /\ UNCHANGED <<file_source, t_file, loadVars, indexVars, t_df, potential_names,
                   match_data, method, final_df, idVars>>

\* the loop body on the next target row
ScrubRow ==
    /\ pc = "scrub"
    /\ ri <= Len(t_df.rows)
    /\ LET row  == t_df.rows[ri]
           t_id == standardize_id(Get(row, "Payer ID"))
       IN  \E names \in Orders(AliasSet(row, name_cols)) :
              LET res == Resolve(t_id, names, m_id, m_name, m_name_list)
              IN  /\ potential_names' = names
                  /\ match_data' = res.match_data
                  /\ method' = res.method
                  /\ results' = AppendResult(results, Assign(row, res, m_df.cols, t_df.cols))
    /\ ri' = ri + 1
    /\ UNCHANGED <<file_source, t_file, pc, loadVars, indexVars, t_df, name_cols,
                   final_df, idVars>>

\* the loop is over: final_df = pd.DataFrame(results)
ScrubDone ==
    /\ pc = "scrub"
    /\ ri > Len(t_df.rows)
    /\ final_df' = results
    /\ pc' = "done"
    /\ UNCHANGED <<file_source, t_file, loadVars, indexVars, t_df, name_cols, ri,
                   potential_names, match_data, method, results, idVars>>

Next == LoadRow \/ LoadReturn \/ Upload \/ ScrubStart \/ ScrubRow \/ ScrubDone

Spec == Init /\ [][Next]_vars

SpecRows == InitRows /\ [][Next]_vars

(***************************************************************************)
(* standardize_id on its own                                               *)
(***************************************************************************)
InitId ==
    /\ file_source = NoFrame
    /\ t_file = NoFrame
    /\ pc = "call"
    /\ li = 1
    /\ id_map = EmptyMap
    /\ name_map = EmptyMap
    /\ master_names_list = <<>>
    /\ m_df = NoFrame
    /\ m_id = EmptyMap
    /\ m_name = EmptyMap
    /\ m_name_list = <<>>
    /\ t_df = NoFrame
    /\ name_cols = <<>>
    /\ ri = 1
    /\ potential_names = <<>>
    /\ match_data = None
    /\ method = S_Unresolved
    /\ results = <<>>
    /\ final_df = <<>>
    /\ val \in IdInputs
    /\ ret = <<>>

StandardizeId ==
    /\ pc = "call"
    /\ ret' = standardize_id(val)
    /\ pc' = "returned"
    /\ UNCHANGED <<file_source, t_file, loadVars, indexVars, t_df, scrubVars, val>>

NextId == StandardizeId

SpecId == InitId /\ [][NextId]_vars

(***************************************************************************)
(* Properties                                                              *)
(***************************************************************************)
\* a target row has been through the loop body; the scrub variables are its
Processed == pc \in {"scrub", "done"} /\ ri > 1

LastIn == t_df.rows[ri - 1]

LastOut == results[ri - 1]

LastId == standardize_id(Get(LastIn, "Payer ID"))

Aliases == Range(potential_names)

Stamps == {"Payer Std?", "Search Method"}

IsExactMethod == \E a \in Aliases : method = ExactLabel(a)

IsPartialMethod == \E a \in Aliases : method = PartialInLabel(a) \/ method = MasterInLabel(a)

IdTierHits == LastId \in DOMAIN m_id

NameTierHits == \E a \in Aliases : a \in DOMAIN m_name

\* alias a and entry j of the name list are in a containment relation
Related(a, j) == Contains(a, m_name_list[j][1]) \/ Contains(m_name_list[j][1], a)

PartialTierHits ==
    \E a \in Aliases : Len(a) >= MinPartialLen /\ \E j \in 1..Len(m_name_list) : Related(a, j)

\* the registry rows that produce the id key k / the name key k
RowsWithId(k) ==
    {i \in 1..Len(m_df.rows) : standardize_id(Get(m_df.rows[i], "Payer ID")) = k}

RowsWithName(k) ==
    {i \in 1..Len(m_df.rows) : normalize(RawName(m_df.rows[i])) = k}

Max(S) == CHOOSE i \in S : \A j \in S : j <= i

(* C1: tiers are tried in strict priority order and the first hit wins: when
   the row's standardized Payer ID is a key of the id map the match is that
   id's record with method 'ID Match', whatever its aliases match; an exact
   name match is returned only when the id tier missed, a partial match only
   when the id tier and the exact-name tier both missed. *)
C1_TierPriority ==
    Processed =>
        /\ IdTierHits => match_data = <<m_id[LastId]>> /\ method = S_IDMatch
        /\ IsExactMethod => ~IdTierHits
        /\ IsPartialMethod => ~IdTierHits /\ ~NameTierHits
        /\ (~IdTierHits /\ NameTierHits) => IsExactMethod

\* the id tier hits while an alias equals, or lies in, the name of another record
C1_Witness ==
    /\ Processed
    /\ IdTierHits
    /\ \E a \in Aliases : a \in DOMAIN m_name /\ m_name[a] # m_id[LastId]
    /\ \E a \in Aliases : \E j \in 1..Len(m_name_list) :
          /\ Len(a) >= MinPartialLen
          /\ Contains(a, m_name_list[j][1])
          /\ m_name_list[j][1] # a
          /\ m_name_list[j][2] # m_id[LastId]

C3_NoTargetColumnChanged ==
    Processed => \A c \in DOMAIN LastIn : LastOut[c] = LastIn[c]

(* C3, amended: every column the target row had, other than one named
   'Payer Std?' or 'Search Method', keeps its value in the output row, matched
   or not and also when the master registry has the column; the two stamp
   columns always hold the status and the method label of this run. *)
C3_NoDataColumnChanged ==
    Processed =>
        /\ \A c \in DOMAIN LastIn \ Stamps : LastOut[c] = LastIn[c]
        /\ LastOut["Payer Std?"] = (IF match_data # None THEN S_Yes ELSE S_No)
        /\ LastOut["Search Method"] = method

\* a matched row has a column that the matched record holds with another value
C3_Witness ==
    /\ Processed
    /\ match_data # None
    /\ \E c \in (DOMAIN LastIn \ Stamps) \cap DOMAIN match_data[1] :
          LastIn[c] # <<>> /\ LastIn[c] # match_data[1][c]

(* C4, as stated: a matched target row without a 'Payer ID' column gets the
   standardized identifier of the matched master row as its 'Payer ID'. *)
C4_StandardizedIdWritten ==
    (Processed /\ "Payer ID" \notin DOMAIN LastIn /\ match_data # None
        /\ "Payer ID" \in DOMAIN match_data[1]) =>
        LastOut["Payer ID"] = standardize_id(match_data[1]["Payer ID"])

(* C4, amended: a matched target row without a 'Payer ID' column gets the
   'Payer ID' cell of the matched master row as the registry holds it, not
   standardized; its 'Payer Std?' is 'Yes', and its method label is of the
   partial form when no alias is a key of the name map. *)
C4_RawIdWritten ==
    (Processed /\ "Payer ID" \notin DOMAIN LastIn /\ match_data # None
        /\ "Payer ID" \in DOMAIN match_data[1]) =>
        /\ \E i \in 1..Len(m_df.rows) :
              /\ match_data[1] = m_df.rows[i]
              /\ LastOut["Payer ID"] = m_df.rows[i]["Payer ID"]
        /\ LastOut["Payer Std?"] = S_Yes
        /\ ~NameTierHits => IsPartialMethod

\* a row without 'Payer ID' matched by containment to a record whose id is not standard
C4_Witness ==
    /\ Processed
    /\ "Payer ID" \notin DOMAIN LastIn
    /\ match_data # None
    /\ IsPartialMethod
    /\ "Payer ID" \in DOMAIN match_data[1]
    /\ match_data[1]["Payer ID"] # standardize_id(match_data[1]["Payer ID"])

(* C5: the match and the method label of a row are the same for every order
   in which the de-duplicated alias set can be iterated. *)
C5_OrderIndependent ==
    Processed =>
        \A o \in Orders(AliasSet(LastIn, name_cols)) :
            Resolve(LastId, o, m_id, m_name, m_name_list)
                = [match_data |-> match_data, method |-> method]

(* C6: an alias shorter than 4 never produces a partial match: a row whose id
   and exact-name tiers miss and whose aliases are all shorter than 4 is
   Unresolved, and the alias of a partial label has length 4 or more. *)
C6_PartialFloor ==
    Processed =>
        /\ (~IdTierHits /\ ~NameTierHits /\ \A a \in Aliases : Len(a) < MinPartialLen) =>
              /\ match_data = None
              /\ method = S_Unresolved
              /\ LastOut["Payer Std?"] = S_No
        /\ \A a \in Aliases :
              (method = PartialInLabel(a) \/ method = MasterInLabel(a)) =>
                  Len(a) >= MinPartialLen

\* the upper tiers miss and a short alias lies in a master name, or a master name in it
C6_Witness ==
    /\ Processed
    /\ ~IdTierHits /\ ~NameTierHits
    /\ \A a \in Aliases : Len(a) < MinPartialLen
    /\ \E a \in Aliases : \E j \in 1..Len(m_name_list) :
          Contains(a, m_name_list[j][1]) /\ a # m_name_list[j][1]
    /\ \E a \in Aliases : \E j \in 1..Len(m_name_list) :
          Contains(m_name_list[j][1], a) /\ a # m_name_list[j][1]

\* standardize_id as the claim C7 describes it: trim, cut at '.', cut at '-', and
\* the remnant, trimmed, padded when it is all digits and shorter than 5
ClaimedStandardizeId(v) ==
    IF Strip(v) = <<>> THEN <<>>
    ELSE LET remnant == Strip(SplitFirst(SplitFirst(Strip(v), "."), "-"))
         IN  IF IsDigit(remnant) /\ Len(remnant) < PadWidth
             THEN ZFill(remnant, PadWidth)
             ELSE remnant

(* C7: standardize_id returns "" for empty or blank input; otherwise the
   input trimmed, cut before its first '.', then before its first '-', padded
   with '0' to 5 characters when all-digit and shorter than 5, else the
   trimmed remnant; the result never has leading or trailing whitespace. *)
C7_StandardizeId ==
    pc = "returned" =>
        /\ ret = ClaimedStandardizeId(val)
        /\ ret # <<>> => ret[1] \notin Whitespace /\ ret[Len(ret)] \notin Whitespace

(* C8: every input row gives exactly one output row, in input order: after
   the loop the result has as many rows as the file, the i-th output row
   carries the cells of the i-th input row, and every output row has the
   columns 'Payer Std?' and 'Search Method'. *)
C8_OneRowPerInputInOrder ==
    /\ pc \in {"scrub", "done"} => Len(results) = ri - 1
    /\ pc = "done" =>
          /\ Len(final_df) = Len(t_df.rows)
          /\ \A i \in 1..Len(final_df) :
                /\ \A c \in DOMAIN t_df.rows[i] \ Stamps : final_df[i][c] = t_df.rows[i][c]
                /\ Stamps \subseteq DOMAIN final_df[i]

\* a file of two different rows, one matched and one unresolved, has been scrubbed
C8_Witness ==
    /\ pc = "done"
    /\ Len(t_df.rows) >= 2
    /\ t_df.rows[1] # t_df.rows[2]
    /\ \E i, j \in 1..Len(final_df) :
          final_df[i]["Payer Std?"] = S_Yes /\ final_df[j]["Payer Std?"] = S_No

\* no tier matches the last row
NoTierHits == ~IdTierHits /\ ~NameTierHits /\ ~PartialTierHits

(* C9, as stated: the output row is 'No'/'Unresolved' with no master column
   copied exactly when no tier matched; otherwise it is 'Yes' with another
   method label and every master column absent from the target holds the
   value of the matched record. *)
C9_UnresolvedExactly ==
    Processed =>
        /\ NoTierHits =>
              /\ LastOut["Payer Std?"] = S_No
              /\ LastOut["Search Method"] = S_Unresolved
              /\ DOMAIN LastOut = DOMAIN LastIn \cup Stamps
        /\ ~NoTierHits =>
              /\ LastOut["Payer Std?"] = S_Yes
              /\ LastOut["Search Method"] # S_Unresolved
              /\ match_data # None
              /\ \A c \in Range(m_df.cols) \ Range(t_df.cols) :
                    LastOut[c] = match_data[1][c]

(* C9, amended: the output row is 'No'/'Unresolved' with no master column
   copied exactly when no tier matched; otherwise it is 'Yes' with another
   method label and every master column absent from the target, other than a
   master column named 'Payer Std?' or 'Search Method' (those two hold the
   stamps), holds the value of the single matched record. *)
C9_UnresolvedExactlyButStamps ==
    Processed =>
        /\ NoTierHits =>
              /\ match_data = None
              /\ LastOut["Payer Std?"] = S_No
              /\ LastOut["Search Method"] = S_Unresolved
              /\ DOMAIN LastOut = DOMAIN LastIn \cup Stamps
        /\ ~NoTierHits =>
              /\ match_data # None
              /\ LastOut["Payer Std?"] = S_Yes
              /\ LastOut["Search Method"] = method
              /\ method # S_Unresolved
              /\ DOMAIN LastOut = DOMAIN LastIn \cup Range(m_df.cols) \cup Stamps
              /\ \A c \in (Range(m_df.cols) \ Range(t_df.cols)) \ Stamps :
                    LastOut[c] = match_data[1][c]

\* a row with an id and aliases, none of them in a registry that has ids and names
C9_Witness ==
    /\ Processed
    /\ NoTierHits
    /\ LastId # <<>>
    /\ Aliases # {}
    /\ DOMAIN m_id # {}
    /\ m_name_list # <<>>

\* the registry rows that have a non-empty normalized name, in registry order
NamedRows ==
    LET HasName(r) == normalize(RawName(r)) # <<>>
    IN  SelectSeq(m_df.rows, HasName)

(* C10: the name list holds every registry row with a non-empty normalized
   name, in registry order, duplicates included; when the id and exact-name
   tiers miss, the match is the earliest entry of the list in a containment
   relation with the first alias, in alias-list order, of length 4 or more
   that has such an entry, labelled by the direction of the containment. *)
C10_PartialScanOrder ==
    /\ pc # "load" =>
          m_name_list = [i \in 1..Len(NamedRows) |->
                            <<normalize(RawName(NamedRows[i])), NamedRows[i]>>]
    /\ (Processed /\ ~IdTierHits /\ ~NameTierHits) =>
          LET hitters == {i \in 1..Len(potential_names) :
                            /\ Len(potential_names[i]) >= MinPartialLen
                            /\ \E j \in 1..Len(m_name_list) : Related(potential_names[i], j)}
          IN  IF hitters = {}
              THEN match_data = None /\ method = S_Unresolved
              ELSE LET a == potential_names[Min(hitters)]
                       j == Min({k \in 1..Len(m_name_list) : Related(a, k)})
                   IN  /\ match_data = <<m_name_list[j][2]>>
                       /\ method = IF Contains(a, m_name_list[j][1])
                                   THEN PartialInLabel(a)
                                   ELSE MasterInLabel(a)

\* the first long alias has no hit, the next one hits two entries with different records
C10_Witness ==
    /\ Processed
    /\ ~IdTierHits /\ ~NameTierHits
    /\ Len(potential_names) >= 2
    /\ Len(potential_names[1]) >= MinPartialLen
    /\ \A j \in 1..Len(m_name_list) : ~Related(potential_names[1], j)
    /\ \E j, k \in 1..Len(m_name_list) :
          /\ j < k
          /\ Related(potential_names[2], j)
          /\ Related(potential_names[2], k)
          /\ m_name_list[j][2] # m_name_list[k][2]

====
